---- MODULE Spec2Model ----
(***************************************************************************)
(* A model of TextExtractor (src/text_extractor.cpp): the text cleaner,    *)
(* the per-line pattern extraction, the chunk splitter, the result         *)
(* aggregator and the master translation worksheet (persist and reapply).  *)
(*                                                                         *)
(* std::string values are TLA+ strings; offsets are 0-based as in the      *)
(* source (At(s, i) is s[i], substr(s, pos, n) is s.substr(pos, n)).       *)
(***************************************************************************)
EXTENDS Integers, Sequences, FiniteSets, TLC

VARIABLES
    pc,                  \* position of the running operation
    max_chunk_size,      \* TextExtractor::max_chunk_size
    text_patterns,       \* TextExtractor::text_patterns, the rules the build holds
    \* clean_text, applied once and then to its own output
    raw, cleaned, recleaned,
    \* split_into_chunks: its argument, its locals, its result
    chunks, result, idx, start, chunk_id,
    cuts,                \* per element of result: the source chunk, the start offset,
                         \* and whether line 190 skipped a space after it
    \* extract_texts: the scanned files, the loop position, the ExtractionResult
    files, fidx, res,
    \* save_extracted_texts, then apply_translations
    sheet_chunks,        \* the chunks handed to save_extracted_texts
    master,              \* master_translation.txt, as the lines std::getline reads
    line_no,             \* the next line apply_translations reads
    current_id, current_original, current_translation, translations,
    edits                \* the edits the translator has made

vars == <<pc, max_chunk_size, text_patterns, raw, cleaned, recleaned, chunks, result, idx, start,
          chunk_id, cuts, files, fidx, res, sheet_chunks, master, line_no,
          current_id, current_original, current_translation, translations, edits>>

(***************************************************************************)
(* Bounds of the model and constants of the program.                       *)
(***************************************************************************)
\* Longest raw string handed to clean_text.
MaxRawLen == 4
\* Longest chunk text handed to split_into_chunks.
MaxTextLen == 7
\* The chunk size the splitter is exercised with (the program's is 50000).
SmallChunkSize == 3
\* Most files in a scanned directory; most lines in a file.
MaxFiles == 2
MaxLines == 1
\* Most source lines behind a worksheet; most edits a translator makes.
MaxSheetLines == 1
MaxEdits == 2

\* size_t min_text_length = 3;  size_t max_chunk_size = 50000;
min_text_length == 3
default_max_chunk_size == 50000
\* std::string::npos: no offset of a string.
npos == -1

(***************************************************************************)
(* std::string helpers.                                                    *)
(***************************************************************************)
Min(a, b) == IF a <= b THEN a ELSE b

\* s[i], 0-based; "" stands for the terminator read at s[s.size()].
At(s, i) == IF 0 <= i /\ i < Len(s) THEN SubSeq(s, i + 1, i + 1) ELSE ""

\* s.substr(pos, n): at most n characters from offset pos (pos <= s.size()).
substr(s, pos, n) ==
    IF pos >= Len(s) \/ n <= 0 THEN "" ELSE SubSeq(s, pos + 1, Min(pos + n, Len(s)))

\* s.substr(pos): the rest of s from offset pos.
substr_from(s, pos) == IF pos >= Len(s) THEN "" ELSE SubSeq(s, pos + 1, Len(s))

\* s.find(prefix) == 0
starts_with(s, prefix) == Len(s) >= Len(prefix) /\ SubSeq(s, 1, Len(prefix)) = prefix

\* The smallest such offset instead (what s.find(ch) bounded by pos returns).
rfind_first(s, ch, pos) ==
    LET hits == {i \in 0..Min(pos, Len(s) - 1) : At(s, i) = ch}
    IN IF hits = {} THEN npos ELSE CHOOSE i \in hits : \A j \in hits : i <= j

\* s.rfind(ch, pos): the largest offset i <= pos with s[i] = ch, or npos.
rfind(s, ch, pos) ==
    LET hits == {i \in 0..Min(pos, Len(s) - 1) : At(s, i) = ch}
    IN IF hits = {} THEN npos ELSE CHOOSE i \in hits : \A j \in hits : j <= i

\* The vertical tab, character 11, which a TLA+ string holds only unescaped.
vtab == ""

\* std::isspace in the "C" locale: space, \t, \n, \v, \f, \r.
isspace(c) == c \in {" ", "\t", "\n", vtab, "\f", "\r"}

\* All strings over alphabet A of length at most n.
RECURSIVE StringsUpTo(_, _)
StringsUpTo(A, n) ==
    IF n = 0 THEN {""}
    ELSE LET P == StringsUpTo(A, n - 1) IN P \cup {p \o c : p \in P, c \in A}

(***************************************************************************)
(* Text Cleaner: clean_text (lines 324-344).                               *)
(***************************************************************************)
\* std::regex_replace(s, std::regex(<the two literal characters tok>), rep):
\* every non-overlapping occurrence of tok, leftmost first, becomes rep.
RECURSIVE regex_replace(_, _, _)
regex_replace(s, tok, rep) ==
    IF Len(s) < 2 THEN s
    ELSE IF SubSeq(s, 1, 2) = tok
         THEN rep \o regex_replace(substr_from(s, 2), tok, rep)
         ELSE SubSeq(s, 1, 1) \o regex_replace(substr_from(s, 1), tok, rep)

\* Lines 328-333, in the source's order.
unescape(text) ==
    LET s1 == regex_replace(text, "\\n", "\n")
        s2 == regex_replace(s1, "\\t", "\t")
        s3 == regex_replace(s2, "\\r", "\r")
        s4 == regex_replace(s3, "\\\"", "\"")
        s5 == regex_replace(s4, "\\'", "'")
    IN regex_replace(s5, "\\\\", "\\")

\* Lines 336-341: erase leading, then trailing whitespace.
trim(s) ==
    LET keep == {i \in 1..Len(s) : ~isspace(SubSeq(s, i, i))}
    IN IF keep = {} THEN ""
       ELSE LET lo == CHOOSE i \in keep : \A j \in keep : i <= j
                hi == CHOOSE i \in keep : \A j \in keep : j <= i
            IN SubSeq(s, lo, hi)

clean_text_trim_first(text) == unescape(trim(text))

clean_text(text) == trim(unescape(text))

(***************************************************************************)
(* Pattern Registry: text_patterns (lines 20-40).  Every rule has one      *)
(* capture group and is deterministic: each of its pieces stops at the     *)
(* first character the next piece needs, so the backtracking std::regex    *)
(* search finds the match computed here or none.                           *)
(*                                                                         *)
(* Line 21 is written with the raw-string delimiter R"( ... )", which the  *)
(* pattern's own )" ends early: the initializer does not compile as        *)
(* written, and the literal the line holds is no regular expression.  The  *)
(* source therefore fixes rules 2-19 only.  A build exists once line 21 is *)
(* either removed (18 rules) or given the pattern its comment names, the   *)
(* double-quoted literal (19 rules); the registry of a run is one of the   *)
(* two, and no operation changes it.                                       *)
(***************************************************************************)
Quoted(q) == [kind |-> "quoted", arg |-> q]
KeyVal(key) == [kind |-> "keyval", arg |-> key]
Tag(tag) == [kind |-> "tag", arg |-> tag]

text_patterns_initializer(line_21) ==
    (IF line_21 THEN << Quoted("\"") >> ELSE << >>) \o
    << Quoted("'"),
       KeyVal("text"), KeyVal("label"), KeyVal("message"), KeyVal("title"),
       KeyVal("description"), KeyVal("name"), KeyVal("value"), KeyVal("content"),
       Tag("text"), Tag("string"), Tag("message"), Tag("label"), Tag("title"),
       Tag("description"), Tag("name"), Tag("value"), Tag("content") >>

\* The registries a build can hold: line 21 removed, or line 21 repaired.
Registries == {text_patterns_initializer(line_21) : line_21 \in BOOLEAN}

NoMatch == [len |-> 0, cap_pos |-> 0, cap_len |-> 0]

\* q([^q\\]*(\\.[^q\\]*)*)q from offset i, just after the opening quote: the offset
\* of the closing quote, or npos.  "." matches no line terminator.
RECURSIVE scan_quoted(_, _, _)
scan_quoted(line, q, i) ==
    IF i >= Len(line) THEN npos
    ELSE IF At(line, i) = q THEN i
    ELSE IF At(line, i) = "\\"
         THEN IF i + 1 < Len(line) /\ At(line, i + 1) \notin {"\n", "\r"}
              THEN scan_quoted(line, q, i + 2)
              ELSE npos
    ELSE scan_quoted(line, q, i + 1)

\* \s*: the first offset >= i that holds no whitespace.
RECURSIVE skip_spaces(_, _)
skip_spaces(line, i) ==
    IF i < Len(line) /\ isspace(At(line, i)) THEN skip_spaces(line, i + 1) ELSE i

\* [^...]+ / [^...]*: the first offset >= i that holds a character of stops.
RECURSIVE run_end(_, _, _)
run_end(line, stops, i) ==
    IF i < Len(line) /\ At(line, i) \notin stops THEN run_end(line, stops, i + 1) ELSE i

\* The rule's match starting exactly at offset p, or NoMatch.
match_at(line, pat, p) ==
    IF pat.kind = "quoted" THEN
        IF At(line, p) # pat.arg THEN NoMatch
        ELSE LET close == scan_quoted(line, pat.arg, p + 1)
             IN IF close = npos THEN NoMatch
                ELSE [len |-> close - p + 1, cap_pos |-> p + 1, cap_len |-> close - p - 1]
    ELSE IF pat.kind = "keyval" THEN
        \* key\s*[:=]\s*["']([^"']+)["']
        IF substr(line, p, Len(pat.arg)) # pat.arg THEN NoMatch
        ELSE LET sep == skip_spaces(line, p + Len(pat.arg))
                 open == skip_spaces(line, sep + 1)
                 close == run_end(line, {"\"", "'"}, open + 1)
             IN IF /\ At(line, sep) \in {":", "="}
                   /\ At(line, open) \in {"\"", "'"}
                   /\ close > open + 1
                   /\ close < Len(line)
                THEN [len |-> close - p + 1, cap_pos |-> open + 1,
                      cap_len |-> close - open - 1]
                ELSE NoMatch
    ELSE
        \* <tag>([^<]+)</tag>
        LET opening == "<" \o pat.arg \o ">"
            closing == "</" \o pat.arg \o ">"
            body == p + Len(opening)
            close == run_end(line, {"<"}, body)
        IN IF /\ substr(line, p, Len(opening)) = opening
              /\ close > body
              /\ substr(line, close, Len(closing)) = closing
           THEN [len |-> close + Len(closing) - p, cap_pos |-> body,
                 cap_len |-> close - body]
           ELSE NoMatch

\* std::sregex_iterator over the line (lines 125-128): the leftmost match at or
\* after offset from, then the matches after its end.  Each match carries its
\* own position.
RECURSIVE matches_from(_, _, _)
matches_from(line, pat, from) ==
    LET at == {p \in from..(Len(line) - 1) : match_at(line, pat, p) # NoMatch}
    IN IF at = {} THEN << >>
       ELSE LET p == CHOOSE x \in at : \A y \in at : x <= y
                m == match_at(line, pat, p)
            IN << [pos |-> p, len |-> m.len, cap_pos |-> m.cap_pos,
                   cap_len |-> m.cap_len] >>
               \o matches_from(line, pat, p + m.len)

(***************************************************************************)
(* Extraction Engine: extract_from_file (lines 109-157).                   *)
(***************************************************************************)
\* Lines 129-146: the chunk of one match, kept when its cleaned text is long
\* enough.
chunk_of_match(file_path, line_number, line, m) ==
    LET text == clean_text(substr(line, m.cap_pos, m.cap_len))
    IN IF Len(text) >= min_text_length
       THEN << [text |-> text,
                file_path |-> file_path,
                line_number |-> line_number,
                column_start |-> m.cap_pos,
                column_end |-> m.cap_pos + m.cap_len,
                context |-> line,
                original_text |-> substr(line, m.pos, m.len)] >>
       ELSE << >>

RECURSIVE chunks_of_matches(_, _, _, _)
chunks_of_matches(file_path, line_number, line, ms) ==
    IF ms = << >> THEN << >>
    ELSE chunk_of_match(file_path, line_number, line, Head(ms))
         \o chunks_of_matches(file_path, line_number, line, Tail(ms))

\* Lines 124-148: every rule over one line, in registry order, from rule k on.
RECURSIVE chunks_of_line(_, _, _, _, _)
chunks_of_line(file_path, line_number, line, patterns, k) ==
    IF k > Len(patterns) THEN << >>
    ELSE chunks_of_matches(file_path, line_number, line,
                           matches_from(line, patterns[k], 0))
         \o chunks_of_line(file_path, line_number, line, patterns, k + 1)

\* Lines 118-149: the getline loop, from the line numbered n on.
RECURSIVE chunks_of_lines(_, _, _, _)
chunks_of_lines(file_path, lines, patterns, n) ==
    IF n > Len(lines) THEN << >>
    ELSE chunks_of_line(file_path, n, lines[n], patterns, 1)
         \o chunks_of_lines(file_path, lines, patterns, n + 1)

\* A file that is_open() fails on is read all the same.
extract_from_file_unchecked(file, patterns) ==
    chunks_of_lines(file.path, file.lines, patterns, 1)

\* A file that cannot be opened yields no chunk (lines 113-116).
extract_from_file(file, patterns) ==
    IF ~file.openable THEN << >>
    ELSE chunks_of_lines(file.path, file.lines, patterns, 1)

(***************************************************************************)
(* Chunk Splitter: split_into_chunks (lines 160-198).                      *)
(***************************************************************************)
\* Lines 173-181 with the search started one character too far.
fragment_end_past(text, s, max) ==
    LET hard == Min(s + max, Len(text))
    IN IF hard < Len(text)
       THEN LET last_space == rfind(text, " ", hard + 1)
            IN IF last_space # npos /\ last_space > s THEN last_space ELSE hard
       ELSE hard

\* Lines 173-181 searching forwards, for the first space.
fragment_end_first(text, s, max) ==
    LET hard == Min(s + max, Len(text))
    IN IF hard < Len(text)
       THEN LET last_space == rfind_first(substr_from(text, s + 1), " ", hard - s - 1)
            IN IF last_space # npos THEN last_space + s + 1 ELSE hard
       ELSE hard

\* Lines 173-181: the end of the fragment that starts at offset s.
fragment_end(text, s, max) ==
    LET hard == Min(s + max, Len(text))
    IN IF hard < Len(text)
       THEN LET last_space == rfind(text, " ", hard)
            IN IF last_space # npos /\ last_space > s THEN last_space ELSE hard
       ELSE hard

\* Lines 188-191 skipping a character after every cut.
next_start_always(text, e) == IF e < Len(text) THEN e + 1 ELSE e

\* Lines 188-191: the next fragment's start, past one space.
next_start(text, e) == IF e < Len(text) /\ At(text, e) = " " THEN e + 1 ELSE e

\* Lines 183-185 numbering the fragments from 1.
make_fragment_one_based(chunk, s, e, id) ==
    [chunk EXCEPT !.text = substr(chunk.text, s, e - s),
                  !.file_path = @ \o "_chunk_" \o ToString(id + 1)]

\* Lines 183-185: the fragment record.
make_fragment(chunk, s, e, id) ==
    [chunk EXCEPT !.text = substr(chunk.text, s, e - s),
                  !.file_path = @ \o "_chunk_" \o ToString(id)]

\* Lines 172-193: the fragments of one oversized chunk, from offset s on.
RECURSIVE split_chunk(_, _, _, _)
split_chunk(chunk, s, id, max) ==
    IF s >= Len(chunk.text) THEN << >>
    ELSE LET e == fragment_end(chunk.text, s, max)
         IN << make_fragment(chunk, s, e, id) >>
            \o split_chunk(chunk, next_start(chunk.text, e), id + 1, max)

\* Lines 160-198 as one call.
RECURSIVE split_into_chunks(_, _)
split_into_chunks(cs, max) ==
    IF cs = << >> THEN << >>
    ELSE (IF Len(Head(cs).text) <= max THEN << Head(cs) >>
          ELSE split_chunk(Head(cs), 0, 0, max))
         \o split_into_chunks(Tail(cs), max)

(***************************************************************************)
(* Translation Store: the master worksheet of save_extracted_texts (lines  *)
(* 260-276) and the line reader of apply_translations (line 298).  A file  *)
(* is the string written to it; std::getline cuts it at every LF.          *)
(***************************************************************************)
\* Lines 267-272: the record of chunk number i.
master_record(chunk, i) ==
    "ID: " \o ToString(i) \o "\n"
    \o "File: " \o chunk.file_path \o "\n"
    \o "Line: " \o ToString(chunk.line_number) \o "\n"
    \o "Original: " \o chunk.text \o "\n"
    \o "Translation: \n"
    \o "---\n\n"

RECURSIVE master_records(_, _)
master_records(cs, i) ==
    IF i > Len(cs) THEN ""
    ELSE master_record(cs[i], i) \o master_records(cs, i + 1)

\* Lines 264-273: what master_translation.txt holds.
master_file(cs) == "=== MASTER TRANSLATION FILE ===\n\n" \o master_records(cs, 1)

\* The lines std::getline reads from a file holding content: the pieces between
\* LFs, a last piece without LF included when it is not empty.
RECURSIVE getlines(_)
getlines(content) ==
    IF content = "" THEN << >>
    ELSE LET eol == run_end(content, {"\n"}, 0)
         IN << substr(content, 0, eol) >> \o getlines(substr_from(content, eol + 1))

\* Line 305 with the two tests joined by || : true of every value.
is_filled_either(value) == value # "" \/ value # " "

\* Line 305: the value is not empty and not a single blank.
is_filled(value) == value # "" /\ value # " "

\* Line 306 on a std::unordered_map: insert or overwrite the key's value.
map_put(map, key, value) ==
    [k \in DOMAIN map \cup {key} |-> IF k = key THEN value ELSE map[k]]

EmptyMap == [k \in {} |-> ""]

(***************************************************************************)
(* Inputs.                                                                 *)
(***************************************************************************)
\* Characters of the raw strings the cleaner is given.
CleanAlphabet == {"\\", "n", "t", "r", "\"", "'", " ", vtab, "a"}

\* Characters of the chunk texts the splitter is given.
SplitAlphabet == {"a", " "}

\* Where a chunk given to the splitter may come from.
SplitSources ==
    { [file_path |-> "a.txt", line_number |-> 1, column_start |-> 1, column_end |-> 9,
       context |-> "\"text a\"", original_text |-> "\"text a\""],
      [file_path |-> "b.lua", line_number |-> 7, column_start |-> 8, column_end |-> 15,
       context |-> "say = 'text b'", original_text |-> "'text b'"] }

\* split_into_chunks is called by extract_texts alone (line 217), on chunks made
\* at lines 133-145: a chunk's text is a result of clean_text, at least
\* min_text_length long.
SplitTexts ==
    {t \in StringsUpTo(SplitAlphabet, MaxTextLen) :
        clean_text(t) = t /\ Len(t) >= min_text_length}

SplitChunks ==
    { [text |-> t, file_path |-> p.file_path, line_number |-> p.line_number,
       column_start |-> p.column_start, column_end |-> p.column_end,
       context |-> p.context, original_text |-> p.original_text] :
      t \in SplitTexts, p \in SplitSources }

\* The splitter is given one or two chunks.
SplitInputs ==
    {<< c >> : c \in SplitChunks} \cup {<< c, d >> : c \in SplitChunks, d \in SplitChunks}

\* Lines of the scanned files.
SourceLines == { "name: \"Bob\"", "<text>ok go</text>", "x = 1" }

\* Lines of the file a worksheet is made from.  The second gives the text Bob
\* twice and the third a text with a line feed in it, under either registry.
SheetLines ==
    { "say \"hello\", 'world'", "name: 'Bob'", "'abc\\nTranslation: xyz'" }

\* All sequences over S of length at most n.
RECURSIVE SeqsUpTo(_, _)
SeqsUpTo(S, n) ==
    IF n = 0 THEN {<< >>}
    ELSE LET P == SeqsUpTo(S, n - 1) IN P \cup {Append(p, x) : p \in P, x \in S}

\* The path of the i-th scanned file.
path_of(i) == "f" \o ToString(i) \o ".txt"

\* The file lists a scan may return: each file openable or not.
FileLists ==
    LET Contents == [openable : BOOLEAN, lines : SeqsUpTo(SourceLines, MaxLines)]
    IN { [i \in 1..Len(fs) |-> [path |-> path_of(i), openable |-> fs[i].openable,
                                 lines |-> fs[i].lines]] :
         fs \in SeqsUpTo(Contents, MaxFiles) }

\* What a translator types into a Translation field.
TranslationValues == {"X", "Y", " "}

(***************************************************************************)
(* Initial values of the parts an operation does not use.                  *)
(***************************************************************************)
EmptyResult == [chunks |-> << >>, total_files_processed |-> 0, total_texts_found |-> 0]

CleanIdle == raw = "" /\ cleaned = "" /\ recleaned = ""
SplitIdle == /\ chunks = << >> /\ result = << >> /\ idx = 1 /\ start = 0
             /\ chunk_id = 0 /\ cuts = << >>
ExtractIdle == files = << >> /\ fidx = 1 /\ res = EmptyResult
SheetIdle == /\ sheet_chunks = << >> /\ master = << >> /\ line_no = 1 /\ current_id = ""
             /\ current_original = "" /\ current_translation = ""
             /\ translations = EmptyMap /\ edits = 0

cleanVars == <<raw, cleaned, recleaned>>
splitVars == <<chunks, result, idx, start, chunk_id, cuts>>
extractVars == <<files, fidx, res>>
sheetVars == <<sheet_chunks, master, line_no, current_id, current_original,
               current_translation, translations, edits>>

(***************************************************************************)
(* clean_text applied to a raw string, then to its own result.             *)
(***************************************************************************)
InitClean ==
    /\ pc = "raw"
    /\ max_chunk_size = default_max_chunk_size
    /\ text_patterns = text_patterns_initializer(FALSE)   \* not read by clean_text
    /\ raw \in StringsUpTo(CleanAlphabet, MaxRawLen)
    /\ cleaned = "" /\ recleaned = ""
    /\ SplitIdle /\ ExtractIdle /\ SheetIdle

Clean ==
    /\ pc = "raw"
    /\ cleaned' = clean_text(raw)
    /\ pc' = "cleaned"
    /\ UNCHANGED <<max_chunk_size, text_patterns, raw, recleaned, splitVars, extractVars, sheetVars>>

Reclean ==
    /\ pc = "cleaned"
    /\ recleaned' = clean_text(cleaned)
    /\ pc' = "recleaned"
    /\ UNCHANGED <<max_chunk_size, text_patterns, raw, cleaned, splitVars, extractVars, sheetVars>>

NextClean == Clean \/ Reclean

SpecClean == InitClean /\ [][NextClean]_vars

(***************************************************************************)
(* split_into_chunks, one loop iteration per step.                         *)
(***************************************************************************)
InitSplit ==
    /\ pc = "for"
    /\ max_chunk_size = SmallChunkSize
    /\ text_patterns = text_patterns_initializer(FALSE)   \* not read by the splitter
    /\ chunks \in SplitInputs
    /\ result = << >> /\ idx = 1 /\ start = 0 /\ chunk_id = 0 /\ cuts = << >>
    /\ CleanIdle /\ ExtractIdle /\ SheetIdle

\* Lines 164-165: a chunk within the bound is copied.
PassThrough ==
    /\ pc = "for" /\ idx <= Len(chunks)
    /\ Len(chunks[idx].text) <= max_chunk_size
    /\ result' = Append(result, chunks[idx])
    /\ cuts' = Append(cuts, [src |-> idx, s |-> 0, skipped |-> FALSE])
    /\ idx' = idx + 1
    /\ UNCHANGED <<pc, max_chunk_size, text_patterns, chunks, start, chunk_id, cleanVars, extractVars,
                   sheetVars>>

\* Lines 166-170: an oversized chunk enters the while loop.
BeginSplit ==
    /\ pc = "for" /\ idx <= Len(chunks)
    /\ Len(chunks[idx].text) > max_chunk_size
    /\ start' = 0 /\ chunk_id' = 0
    /\ pc' = "while"
    /\ UNCHANGED <<max_chunk_size, text_patterns, chunks, result, idx, cuts, cleanVars, extractVars,
                   sheetVars>>

\* Lines 172-193: one fragment.
Fragment ==
    /\ pc = "while" /\ start < Len(chunks[idx].text)
    /\ LET text == chunks[idx].text
           e == fragment_end(text, start, max_chunk_size)
       IN /\ result' = Append(result, make_fragment(chunks[idx], start, e, chunk_id))
          /\ start' = next_start(text, e)
          /\ cuts' = Append(cuts, [src |-> idx, s |-> start,
                                   skipped |-> next_start(text, e) # e])
    /\ chunk_id' = chunk_id + 1
    /\ UNCHANGED <<pc, max_chunk_size, text_patterns, chunks, idx, cleanVars, extractVars, sheetVars>>

\* Line 172: the while loop ends, the for loop goes on.
EndSplit ==
    /\ pc = "while" /\ start >= Len(chunks[idx].text)
    /\ idx' = idx + 1
    /\ pc' = "for"
    /\ UNCHANGED <<max_chunk_size, text_patterns, chunks, result, start, chunk_id, cuts, cleanVars,
                   extractVars, sheetVars>>

\* Line 197.
ReturnSplit ==
    /\ pc = "for" /\ idx > Len(chunks)
    /\ pc' = "done"
    /\ UNCHANGED <<max_chunk_size, text_patterns, splitVars, cleanVars, extractVars, sheetVars>>

NextSplit == PassThrough \/ BeginSplit \/ Fragment \/ EndSplit \/ ReturnSplit

SpecSplit == InitSplit /\ [][NextSplit]_vars

(***************************************************************************)
(* extract_texts (lines 201-225), one file per step.                       *)
(***************************************************************************)
InitExtract ==
    /\ pc = "scan"
    /\ max_chunk_size = SmallChunkSize
    /\ text_patterns \in Registries
    /\ files \in FileLists
    /\ fidx = 1 /\ res = EmptyResult
    /\ CleanIdle /\ SplitIdle /\ SheetIdle

\* Lines 207-208: the scan's files are counted.
Scan ==
    /\ pc = "scan"
    /\ res' = [res EXCEPT !.total_files_processed = Len(files)]
    /\ fidx' = 1
    /\ pc' = "extract"
    /\ UNCHANGED <<max_chunk_size, text_patterns, files, cleanVars, splitVars, sheetVars>>

\* Lines 212-213 with a file that cannot be opened read all the same.
gather_unchecked(acc, file, patterns) ==
    acc \o extract_from_file_unchecked(file, patterns)

\* Lines 212-213: the file's chunks are appended.
gather(acc, file, patterns) == acc \o extract_from_file(file, patterns)

ExtractFile ==
    /\ pc = "extract" /\ fidx <= Len(files)
    /\ res' = [res EXCEPT !.chunks = gather(@, files[fidx], text_patterns)]
    /\ fidx' = fidx + 1
    /\ UNCHANGED <<pc, max_chunk_size, text_patterns, files, cleanVars, splitVars, sheetVars>>

\* Lines 217-218: split, then count.
FinishExtract ==
    /\ pc = "extract" /\ fidx > Len(files)
    /\ LET split == split_into_chunks(res.chunks, max_chunk_size)
       IN res' = [res EXCEPT !.chunks = split, !.total_texts_found = Len(split)]
    /\ pc' = "done"
    /\ UNCHANGED <<max_chunk_size, text_patterns, files, fidx, cleanVars, splitVars, sheetVars>>

NextExtract == Scan \/ ExtractFile \/ FinishExtract

SpecExtract == InitExtract /\ [][NextExtract]_vars

(***************************************************************************)
(* The worksheet: written by save_extracted_texts from the chunks of one   *)
(* extracted file, edited by a translator, read by apply_translations      *)
(* (lines 284-321) one line per step.                                      *)
(***************************************************************************)
InitSheet ==
    /\ pc = "save"
    /\ max_chunk_size = default_max_chunk_size
    /\ text_patterns \in Registries
    /\ \E ls \in SeqsUpTo(SheetLines, MaxSheetLines) :
          sheet_chunks = split_into_chunks(
              extract_from_file([path |-> "a.txt", openable |-> TRUE, lines |-> ls],
                                text_patterns),
              max_chunk_size)
    /\ master = << >> /\ line_no = 1 /\ current_id = "" /\ current_original = ""
    /\ current_translation = "" /\ translations = EmptyMap /\ edits = 0
    /\ CleanIdle /\ SplitIdle /\ ExtractIdle

\* Lines 260-276.
Save ==
    /\ pc = "save"
    /\ master' = getlines(master_file(sheet_chunks))
    /\ pc' = "edit"
    /\ UNCHANGED <<max_chunk_size, text_patterns, sheet_chunks, line_no, current_id, current_original,
                   current_translation, translations, edits, cleanVars, splitVars,
                   extractVars>>

\* The translator fills an empty Translation field.
FillTranslation ==
    /\ pc = "edit" /\ edits < MaxEdits
    /\ \E k \in 1..Len(master), v \in TranslationValues :
          /\ master[k] = "Translation: "
          /\ master' = [master EXCEPT ![k] = @ \o v]
    /\ edits' = edits + 1
    /\ UNCHANGED <<pc, max_chunk_size, text_patterns, sheet_chunks, line_no, current_id,
                   current_original, current_translation, translations, cleanVars,
                   splitVars, extractVars>>

\* The translator deletes an Original line: the record is malformed.
RemoveOriginal ==
    /\ pc = "edit" /\ edits < MaxEdits
    /\ \E k \in 1..Len(master) :
          /\ starts_with(master[k], "Original: ")
          /\ master' = SubSeq(master, 1, k - 1) \o SubSeq(master, k + 1, Len(master))
    /\ edits' = edits + 1
    /\ UNCHANGED <<pc, max_chunk_size, text_patterns, sheet_chunks, line_no, current_id,
                   current_original, current_translation, translations, cleanVars,
                   splitVars, extractVars>>

\* Lines 286-296: the file is opened, the map and the current fields are empty.
OpenSheet ==
    /\ pc = "edit"
    /\ line_no' = 1
    /\ current_id' = "" /\ current_original' = "" /\ current_translation' = ""
    /\ translations' = EmptyMap
    /\ pc' = "parse"
    /\ UNCHANGED <<max_chunk_size, text_patterns, sheet_chunks, master, edits, cleanVars, splitVars,
                   extractVars>>

\* Lines 299-300.
ReadId ==
    /\ pc = "parse" /\ line_no <= Len(master)
    /\ starts_with(master[line_no], "ID: ")
    /\ current_id' = substr_from(master[line_no], 4)
    /\ line_no' = line_no + 1
    /\ UNCHANGED <<pc, max_chunk_size, text_patterns, sheet_chunks, master, current_original,
                   current_translation, translations, edits, cleanVars, splitVars,
                   extractVars>>

\* Lines 301-302.
ReadOriginal ==
    /\ pc = "parse" /\ line_no <= Len(master)
    /\ ~starts_with(master[line_no], "ID: ")
    /\ starts_with(master[line_no], "Original: ")
    /\ current_original' = substr_from(master[line_no], 10)
    /\ line_no' = line_no + 1
    /\ UNCHANGED <<pc, max_chunk_size, text_patterns, sheet_chunks, master, current_id,
                   current_translation, translations, edits, cleanVars, splitVars,
                   extractVars>>

\* Lines 303-308.
ReadTranslation ==
    /\ pc = "parse" /\ line_no <= Len(master)
    /\ ~starts_with(master[line_no], "ID: ")
    /\ ~starts_with(master[line_no], "Original: ")
    /\ starts_with(master[line_no], "Translation: ")
    /\ LET value == substr_from(master[line_no], 13)
       IN /\ current_translation' = value
          /\ translations' = IF is_filled(value)
                             THEN map_put(translations, current_original, value)
                             ELSE translations
    /\ line_no' = line_no + 1
    /\ UNCHANGED <<pc, max_chunk_size, text_patterns, sheet_chunks, master, current_id,
                   current_original, edits, cleanVars, splitVars, extractVars>>

\* Any other line is skipped.
ReadOther ==
    /\ pc = "parse" /\ line_no <= Len(master)
    /\ ~starts_with(master[line_no], "ID: ")
    /\ ~starts_with(master[line_no], "Original: ")
    /\ ~starts_with(master[line_no], "Translation: ")
    /\ line_no' = line_no + 1
    /\ UNCHANGED <<pc, max_chunk_size, text_patterns, sheet_chunks, master, current_id,
                   current_original, current_translation, translations, edits,
                   cleanVars, splitVars, extractVars>>

\* Line 298 at the end of the file; line 311.
CloseSheet ==
    /\ pc = "parse" /\ line_no > Len(master)
    /\ pc' = "done"
    /\ UNCHANGED <<max_chunk_size, text_patterns, sheetVars, cleanVars, splitVars, extractVars>>

NextSheet ==
    \/ Save \/ FillTranslation \/ RemoveOriginal \/ OpenSheet
    \/ ReadId \/ ReadOriginal \/ ReadTranslation \/ ReadOther \/ CloseSheet

SpecSheet == InitSheet /\ [][NextSheet]_vars

(***************************************************************************)
(* Properties of the splitter (SpecSplit).                                 *)
(***************************************************************************)
Oversized(i) == Len(chunks[i].text) > max_chunk_size

\* The positions in result of the outputs made from chunk i.
OutputsOf(i) == {j \in 1..Len(result) : cuts[j].src = i}

Lowest(S) == CHOOSE x \in S : \A y \in S : x <= y
Highest(S) == CHOOSE x \in S : \A y \in S : y <= x

\* C1: every chunk of the splitter's result, passed through or a fragment, has
\* at most max_chunk_size characters.
C1_SizeBound == \A j \in 1..Len(result) : Len(result[j].text) <= max_chunk_size

\* C1's case: the call has returned a chunk passed through and a full-size
\* fragment of an oversized chunk.
C1_Witness ==
    /\ pc = "done"
    /\ \E i \in 1..Len(chunks) : ~Oversized(i)
    /\ \E j \in 1..Len(result) :
          /\ Oversized(cuts[j].src)
          /\ Len(result[j].text) = max_chunk_size

\* The fragments of chunk i from position j of result on, joined again: between
\* a fragment and the next, one space is put back when line 190 skipped one.
RECURSIVE Rejoin(_, _)
Rejoin(j, i) ==
    IF j < Len(result) /\ cuts[j + 1].src = i
    THEN result[j].text \o (IF cuts[j].skipped THEN " " ELSE "") \o Rejoin(j + 1, i)
    ELSE result[j].text

\* C2: the fragments of an oversized chunk, joined in order with one space put
\* back at each cut made at a space and nothing at a hard cut, are the chunk's
\* text.
C2_RoundTrip ==
    pc = "done" =>
        \A i \in 1..Len(chunks) :
            Oversized(i) => Rejoin(Lowest(OutputsOf(i)), i) = chunks[i].text

\* C2's case: a chunk was cut once at a space and once at the character count.
C2_Witness ==
    /\ pc = "done"
    /\ \E j, k \in 1..Len(result) - 1 :
          /\ cuts[j].src = cuts[k].src
          /\ cuts[j + 1].src = cuts[j].src /\ cuts[j].skipped
          /\ cuts[k + 1].src = cuts[k].src /\ ~cuts[k].skipped

\* The offsets of the spaces of t after s and up to e.
SpacesIn(t, s, e) == {x \in (s + 1)..e : At(t, x) = " "}

\* C3: a fragment that starts at s with s + max_chunk_size before the end of the
\* text ends at the last space in (s, s + max_chunk_size], the next fragment
\* starting just after that space; without such a space it has exactly
\* max_chunk_size characters and the next fragment starts at s + max_chunk_size.
C3_WordBoundary ==
    pc = "done" =>
        \A j \in 1..Len(result) :
            LET i == cuts[j].src
                t == chunks[i].text
                s == cuts[j].s
                e == s + max_chunk_size
            IN (Oversized(i) /\ e < Len(t)) =>
                  /\ j < Len(result) /\ cuts[j + 1].src = i
                  /\ IF SpacesIn(t, s, e) # {}
                     THEN LET m == Highest(SpacesIn(t, s, e))
                          IN /\ result[j].text = substr(t, s, m - s)
                             /\ cuts[j + 1].s = m + 1
                     ELSE /\ result[j].text = substr(t, s, max_chunk_size)
                          /\ Len(result[j].text) = max_chunk_size
                          /\ cuts[j + 1].s = e

\* C3's case: one fragment was cut at a space before the hard boundary although
\* an earlier space was in reach, another at the hard boundary.
C3_Witness ==
    /\ pc = "done"
    /\ \E j, k \in 1..Len(result) :
          /\ Oversized(cuts[j].src) /\ Oversized(cuts[k].src)
          /\ cuts[j].s + max_chunk_size < Len(chunks[cuts[j].src].text)
          /\ Cardinality(SpacesIn(chunks[cuts[j].src].text, cuts[j].s,
                                  cuts[j].s + max_chunk_size)) >= 2
          /\ cuts[k].s + max_chunk_size < Len(chunks[cuts[k].src].text)
          /\ SpacesIn(chunks[cuts[k].src].text, cuts[k].s,
                      cuts[k].s + max_chunk_size) = {}

\* The fields the splitter copies.
SameProvenance(a, b) ==
    /\ a.line_number = b.line_number
    /\ a.column_start = b.column_start
    /\ a.column_end = b.column_end
    /\ a.context = b.context
    /\ a.original_text = b.original_text

\* C9: a chunk within the bound is output once and unchanged; the fragments of
\* an oversized chunk copy every field but text and file_path, and carry the
\* chunk's file_path followed by _chunk_0, _chunk_1, ... from 0 for each chunk;
\* the outputs follow the input order, each chunk's outputs next to each other.
C9_Frame ==
    pc = "done" =>
        /\ \A j, k \in 1..Len(result) : j <= k => cuts[j].src <= cuts[k].src
        /\ \A j \in 1..Len(result) : SameProvenance(result[j], chunks[cuts[j].src])
        /\ \A i \in 1..Len(chunks) :
              /\ OutputsOf(i) # {}
              /\ OutputsOf(i) = Lowest(OutputsOf(i))..Highest(OutputsOf(i))
              /\ IF Oversized(i)
                 THEN \A j \in OutputsOf(i) :
                         result[j].file_path =
                             chunks[i].file_path \o "_chunk_"
                             \o ToString(j - Lowest(OutputsOf(i)))
                 ELSE /\ Cardinality(OutputsOf(i)) = 1
                      /\ result[Lowest(OutputsOf(i))] = chunks[i]

\* C9's case: two oversized chunks of the same file, and so two fragments
\* numbered 0.
C9_Witness ==
    /\ pc = "done"
    /\ Len(chunks) = 2
    /\ Oversized(1) /\ Oversized(2)
    /\ chunks[1].file_path = chunks[2].file_path
    /\ Cardinality(OutputsOf(1)) >= 2 /\ Cardinality(OutputsOf(2)) >= 2

(***************************************************************************)
(* Properties of the aggregator (SpecExtract).                             *)
(***************************************************************************)
\* The chunks of the files from the i-th on that can be opened, in scan order.
RECURSIVE ChunksOfOpenable(_, _)
ChunksOfOpenable(fs, i) ==
    IF i > Len(fs) THEN << >>
    ELSE (IF fs[i].openable
          THEN chunks_of_lines(fs[i].path, fs[i].lines, text_patterns, 1)
          ELSE << >>)
         \o ChunksOfOpenable(fs, i + 1)

\* The scanned file a chunk of the result comes from.
FileOf(chunk) == CHOOSE i \in 1..Len(files) : starts_with(chunk.file_path, files[i].path)

\* C8: every scanned file is counted, one that cannot be opened gives no chunk,
\* the chunks of the others are extracted and come in scan order, and
\* total_texts_found is the length of the split sequence returned.
C8_UnopenableSkipped ==
    pc = "done" =>
        /\ res.total_files_processed = Len(files)
        /\ res.total_texts_found = Len(res.chunks)
        /\ res.chunks = split_into_chunks(ChunksOfOpenable(files, 1), max_chunk_size)
        /\ \A j \in 1..Len(res.chunks) :
              /\ \E i \in 1..Len(files) :
                    starts_with(res.chunks[j].file_path, files[i].path)
              /\ files[FileOf(res.chunks[j])].openable
        /\ \A j, k \in 1..Len(res.chunks) :
              j <= k => FileOf(res.chunks[j]) <= FileOf(res.chunks[k])

\* C8's case: a file with text in it could not be opened, a file scanned after
\* it gave chunks, and the split made more chunks than were extracted.
C8_Witness ==
    /\ pc = "done"
    /\ \E i, k \in 1..Len(files) :
          /\ i < k
          /\ ~files[i].openable
          /\ chunks_of_lines(files[i].path, files[i].lines, text_patterns, 1) # << >>
          /\ files[k].openable
          /\ \E j \in 1..Len(res.chunks) : FileOf(res.chunks[j]) = k
    /\ res.total_files_processed > 1
    /\ res.total_texts_found > Len(ChunksOfOpenable(files, 1))

(***************************************************************************)
(* Properties of the cleaner (SpecClean).                                  *)
(***************************************************************************)
\* The characters that make an escape token after a backslash.
Escapable == {"n", "t", "r", "\"", "'", "\\"}

has_escape_token(s) ==
    \E k \in 0..(Len(s) - 2) : At(s, k) = "\\" /\ At(s, k + 1) \in Escapable

has_backslash(s) == \E k \in 0..(Len(s) - 1) : At(s, k) = "\\"

\* C6 as claimed: cleaning a cleaned string changes nothing.
C6_Idempotent == pc = "recleaned" => recleaned = cleaned

\* C6, amended: cleaning a cleaned string changes nothing when the cleaned
\* string holds no backslash followed by n, t, r, a quote or a backslash.
C6_IdempotentWithoutToken ==
    (pc = "recleaned" /\ ~has_escape_token(cleaned)) => recleaned = cleaned

\* C6's case: the first cleaning replaced an escape token and trimmed, and left
\* no token behind.
C6_Witness ==
    /\ pc = "recleaned"
    /\ has_escape_token(raw)
    /\ ~has_escape_token(cleaned)
    /\ Len(cleaned) > 0 /\ Len(cleaned) + 1 < Len(raw)

\* C7: a doubled backslash followed by n, t, r or a quote is cleaned to one
\* backslash followed by that same character (here with no other backslash in
\* the string, so that nothing else is unescaped).
C7_DoubledBackslashLiteral ==
    pc # "raw" =>
        \A k \in 0..(Len(raw) - 3) :
            ( /\ substr(raw, k, 2) = "\\\\"
              /\ At(raw, k + 2) \in Escapable \ {"\\"}
              /\ ~has_backslash(substr(raw, 0, k))
              /\ ~has_backslash(substr_from(raw, k + 3)) )
            => cleaned = trim(substr(raw, 0, k) \o "\\" \o At(raw, k + 2)
                              \o substr_from(raw, k + 3))

(***************************************************************************)
(* Properties of the worksheet (SpecSheet).                                *)
(***************************************************************************)
\* The --- lines: each ends a record, which starts after the --- before it.
Delimiters == {d \in 1..Len(master) : master[d] = "---"}

RecordStart(d) ==
    LET before == {x \in Delimiters : x < d}
    IN IF before = {} THEN 1 ELSE Highest(before) + 1

FieldLines(d, label) ==
    {k \in RecordStart(d)..(d - 1) : starts_with(master[k], label)}

\* A record has one ID, one Original and one Translation line, in this order.
WellFormedRecord(d) ==
    /\ Cardinality(FieldLines(d, "ID: ")) = 1
    /\ Cardinality(FieldLines(d, "Original: ")) = 1
    /\ Cardinality(FieldLines(d, "Translation: ")) = 1
    /\ Lowest(FieldLines(d, "ID: ")) < Lowest(FieldLines(d, "Original: "))
    /\ Lowest(FieldLines(d, "Original: ")) < Lowest(FieldLines(d, "Translation: "))

\* Every record is well formed and no field follows the last record.
WellFormedSheet ==
    /\ \A d \in Delimiters : WellFormedRecord(d)
    /\ \A k \in 1..Len(master) :
          (\A d \in Delimiters : d < k) =>
              /\ ~starts_with(master[k], "ID: ")
              /\ ~starts_with(master[k], "Original: ")
              /\ ~starts_with(master[k], "Translation: ")

OriginalOf(d) == substr_from(master[Lowest(FieldLines(d, "Original: "))], 10)
TranslationOf(d) ==
    substr_from(master[Lowest(FieldLines(d, "Translation: "))], 13)

\* The records whose Translation is not empty and not a single blank.
Translated == {d \in Delimiters : TranslationOf(d) \notin {"", " "}}

\* C4 as claimed: of N well-formed records, the k translated ones give exactly
\* k entries of the mapping.
C4_ExactlyK ==
    (pc = "done" /\ WellFormedSheet) =>
        Cardinality(DOMAIN translations) = Cardinality(Translated)

\* C4, amended: the mapping has one entry for each distinct Original value of
\* the k translated records, holding the translation of the last record with
\* that value; so it has k entries when these values differ pairwise.
C4_OnePerOriginal ==
    (pc = "done" /\ WellFormedSheet) =>
        /\ DOMAIN translations = {OriginalOf(d) : d \in Translated}
        /\ \A o \in DOMAIN translations :
              translations[o] =
                  TranslationOf(Highest({d \in Translated : OriginalOf(d) = o}))
        /\ (\A d, e \in Translated : d # e => OriginalOf(d) # OriginalOf(e))
              => Cardinality(DOMAIN translations) = Cardinality(Translated)

\* C4's case: a well-formed worksheet read to its end, with a translated record
\* and a record whose Translation is a single blank.
C4_Witness ==
    /\ pc = "done"
    /\ WellFormedSheet
    /\ Translated # {}
    /\ \E d \in Delimiters : TranslationOf(d) = " "

\* C5: a Translation line with no Original line before it in its record makes no
\* entry: every entry of the mapping pairs an Original line with a Translation
\* line that follows it with no ID line and no --- between them.  (Stated for
\* chunk texts of one line, whose records hold no line of the text itself.)
C5_MalformedRejected ==
    (pc = "done" /\ \A n \in 1..Len(sheet_chunks) :
                       run_end(sheet_chunks[n].text, {"\n"}, 0)
                           = Len(sheet_chunks[n].text)) =>
        \A o \in DOMAIN translations :
            \E j, k \in 1..Len(master) :
                /\ j < k
                /\ master[j] = "Original: " \o o
                /\ master[k] = "Translation: " \o translations[o]
                /\ \A x \in (j + 1)..(k - 1) :
                      /\ ~starts_with(master[x], "ID: ")
                      /\ master[x] # "---"

\* C10: reading the worksheet as save_extracted_texts wrote it, with no
\* Translation filled in, gives the empty mapping.
C10_UneditedEmpty ==
    (pc = "done" /\ edits = 0 /\ master = getlines(master_file(sheet_chunks))) =>
        translations = EmptyMap

====
